---- MODULE Spec2Model ----
(***************************************************************************)
(* flask-magql: the /graphql request pipeline.                             *)
(*                                                                         *)
(* Two variants of the extension live in the source tree and both are      *)
(* modelled, selected by the variable impl:                                *)
(*   "_views"    : _extension.py + _views.py (decorators read per request, *)
(*                 _default_fsa_context evaluated per execution)           *)
(*   "extension" : extension.py (decorators bound and the session context  *)
(*                 built at init_app)                                      *)
(***************************************************************************)
EXTENDS Integers, Sequences, FiniteSets, TLC

(***************************************************************************)
(* Python None / optional values: None is the empty tuple, a present value *)
(* x is the one-element tuple <<x>>.                                       *)
(***************************************************************************)
None == <<>>
Some(x) == <<x>>
IsNone(o) == Len(o) = 0
Get(o) == o[1]

\* The empty dict.
EmptyDict == [k \in {} |-> ""]

(***************************************************************************)
(* Bounds of the model.                                                    *)
(***************************************************************************)
\* Longest batch a request carries.
MaxBatch == 2

Impls == {"_views", "extension"}
Requests == {1, 2}

(***************************************************************************)
(* JSON values of the parsed request body (current_app.json.loads).        *)
(***************************************************************************)
JNull == [t |-> "null"]
JStr(s) == [t |-> "str", s |-> s]
JMap(m) == [t |-> "map", m |-> m]
JList(l) == [t |-> "list", l |-> l]
\* The FileStorage handle request.files[k].
JFile(k) == [t |-> "file", k |-> k]

IsList(x) == x.t = "list"
IsMap(x) == x.t = "map"

(***************************************************************************)
(* The GraphQL engine (external): ExecutionResult of schema.execute, a     *)
(* function of the query text.  errors is None or a list of GraphQLError.  *)
(***************************************************************************)
GraphQLErrorClasses == {"GraphQLError('Must be capitalized.')"}

SyntaxErr ==
    [message |-> "Syntax Error: Expected Name, found ')'.",
     path |-> None,
     original_error |-> None,
     extensions |-> EmptyDict]

ValidationErr ==
    [message |-> "magql argument validation",
     path |-> Some(<<"greet">>),
     original_error |-> Some("GraphQLError('Must be capitalized.')"),
     extensions |-> ("name" :> "Must be capitalized.")]

FieldFault ==
    [message |-> "error requested",
     path |-> Some(<<"error">>),
     original_error |-> Some("Exception('error requested')"),
     extensions |-> EmptyDict]

OperationFault ==
    [message |-> "boom",
     path |-> None,
     original_error |-> Some("RuntimeError('boom')"),
     extensions |-> ("code" :> "E_BOOM")]

Queries ==
    {"{ greet }", "{ __typename }", "{ greet() }", "{ greet(name: 'test') }",
     "{ error }", "{ greet(name: 'test') error boom }"}

schema_execute(source) ==
    CASE source = "{ greet }" ->
           [data |-> Some("Hello, World!"), errors |-> None]
      [] source = "{ __typename }" ->
           [data |-> Some("Query"), errors |-> Some(<<>>)]
      [] source = "{ greet() }" ->
           [data |-> None, errors |-> Some(<<SyntaxErr>>)]
      [] source = "{ greet(name: 'test') }" ->
           [data |-> None, errors |-> Some(<<ValidationErr>>)]
      [] source = "{ error }" ->
           [data |-> Some("null"), errors |-> Some(<<FieldFault>>)]
      [] OTHER ->
           [data |-> None,
            errors |-> Some(<<ValidationErr, FieldFault, OperationFault>>)]

\* isinstance(oe, GraphQLError)
IsGraphQLError(oe) == oe \in GraphQLErrorClasses

\* traceback.format_exception(type(oe), oe, oe.__traceback__), joined.
format_exception(oe) ==
    CASE oe = "Exception('error requested')" ->
           "Traceback (most recent call last): Exception: error requested"
      [] oe = "RuntimeError('boom')" ->
           "Traceback (most recent call last): RuntimeError: boom"
      [] OTHER -> "Traceback (most recent call last): GraphQLError"

\* GraphQLError.formatted: path and extensions only when present / non-empty.
error_formatted(error) ==
    ("message" :> Some(error.message))
    @@ (IF IsNone(error.path) THEN EmptyDict ELSE "path" :> error.path)
    @@ (IF DOMAIN error.extensions = {} THEN EmptyDict
        ELSE "extensions" :> Some(error.extensions))

\* ExecutionResult.formatted: "errors" only when errors is not None.
result_formatted(result) ==
    [data |-> result.data,
     errors |-> IF IsNone(result.errors) THEN None
                ELSE Some([i \in 1..Len(Get(result.errors)) |->
                              error_formatted(Get(result.errors)[i])])]

(***************************************************************************)
(* files.py: map_files_to_operations.                                      *)
(*                                                                         *)
(* A dotted path string is a sequence of tokens, "." being the separator;  *)
(* a segment is the token between two separators ("" when there is none).  *)
(***************************************************************************)
RECURSIVE split(_)
\* path_str.split(".")
split(path_str) ==
    IF path_str = <<>> THEN <<"">>
    ELSE LET rest == split(Tail(path_str)) IN
         IF Head(path_str) = "." THEN <<"">> \o rest
         ELSE <<Head(path_str)>> \o Tail(rest)

\* int(part): the literals Python parses; every other segment is a ValueError.
IntOf == ("0" :> 0) @@ ("1" :> 1) @@ ("2" :> 2) @@ ("-1" :> -1) @@ ("-3" :> -3)

\* Mutant: the index is taken as a 1-based position.
list_position_one_based(i, n) ==
    IF i >= 1 /\ i <= n THEN i ELSE 0

\* Python list indexing: the 1-based position addressed by index i in a list
\* of length n (negative indices count from the end), 0 when out of range.
list_position(i, n) ==
    IF i >= 0 /\ i < n THEN i + 1
    ELSE IF i < 0 /\ i >= -n THEN n + i + 1
    ELSE 0

Raise(e, current) == [exc |-> Some(e), v |-> current]
NoExc(current) == [exc |-> None, v |-> current]

\* Mutant: the replacement writes only over a null.
replace_last_only_null(current, last, files, files_key) ==
    IF files_key \notin files THEN Raise("BadRequestKeyError", current)
    ELSE IF IsList(current) THEN
        IF last \notin DOMAIN IntOf THEN Raise("ValueError", current)
        ELSE LET i == list_position(IntOf[last], Len(current.l)) IN
             IF i = 0 THEN Raise("IndexError", current)
             ELSE IF current.l[i] # JNull THEN NoExc(current)
             ELSE NoExc(JList([current.l EXCEPT ![i] = JFile(files_key)]))
    ELSE IF IsMap(current) THEN
        IF last \in DOMAIN current.m /\ current.m[last] # JNull
        THEN NoExc(current)
        ELSE NoExc(JMap((last :> JFile(files_key)) @@ current.m))
    ELSE Raise("TypeError", current)

\* The replacement `current[last] = files[files_key]` at the end of a path.
\* The right-hand side is evaluated first (request.files raises
\* BadRequestKeyError), then the subscript, then the store.
replace_last(current, last, files, files_key) ==
    IF files_key \notin files THEN Raise("BadRequestKeyError", current)
    ELSE IF IsList(current) THEN
        IF last \notin DOMAIN IntOf THEN Raise("ValueError", current)
        ELSE LET i == list_position(IntOf[last], Len(current.l)) IN
             IF i = 0 THEN Raise("IndexError", current)
             ELSE NoExc(JList([current.l EXCEPT ![i] = JFile(files_key)]))
    ELSE IF IsMap(current) THEN
        NoExc(JMap((last :> JFile(files_key)) @@ current.m))
    ELSE Raise("TypeError", current)

RECURSIVE walk(_, _, _, _, _)
\* The loop `for part in path` followed by the replacement, on the subtree
\* current; v is the subtree after the in-place write.
walk(current, path, last, files, files_key) ==
    IF path = <<>> THEN replace_last(current, last, files, files_key)
    ELSE LET part == Head(path) IN
         IF IsList(current) THEN
             IF part \notin DOMAIN IntOf THEN Raise("ValueError", current)
             ELSE LET i == list_position(IntOf[part], Len(current.l)) IN
                  IF i = 0 THEN Raise("IndexError", current)
                  ELSE LET sub == walk(current.l[i], Tail(path), last,
                                       files, files_key) IN
                       [exc |-> sub.exc,
                        v |-> JList([current.l EXCEPT ![i] = sub.v])]
         ELSE IF IsMap(current) THEN
             IF part \notin DOMAIN current.m THEN Raise("KeyError", current)
             ELSE LET sub == walk(current.m[part], Tail(path), last,
                                  files, files_key) IN
                  [exc |-> sub.exc,
                   v |-> JMap([current.m EXCEPT ![part] = sub.v])]
         ELSE Raise("TypeError", current)

\* One path of one file-map entry.
map_path(operations, path_str, files, files_key) ==
    LET parts == split(path_str) IN
    walk(operations, SubSeq(parts, 1, Len(parts) - 1), parts[Len(parts)],
         files, files_key)

RECURSIVE map_paths(_, _, _, _)
\* `for path_str in paths`, stopping at the first exception.
map_paths(operations, paths, files, files_key) ==
    IF paths = <<>> THEN NoExc(operations)
    ELSE LET r == map_path(operations, Head(paths), files, files_key) IN
         IF ~IsNone(r.exc) THEN r
         ELSE map_paths(r.v, Tail(paths), files, files_key)

RECURSIVE map_files_to_operations(_, _, _)
\* `for files_key, paths in file_map.items()`; file_map is the sequence of
\* its items <<files_key, paths>> in document order.
map_files_to_operations(operations, file_map, files) ==
    IF file_map = <<>> THEN NoExc(operations)
    ELSE LET r == map_paths(operations, Head(file_map)[2], files,
                            Head(file_map)[1]) IN
         IF ~IsNone(r.exc) THEN r
         ELSE map_files_to_operations(r.v, Tail(file_map), files)

(***************************************************************************)
(* State.                                                                  *)
(***************************************************************************)
VARIABLES
    impl,            \* which variant of the extension is installed
    debug,           \* current_app.debug
    decorators,      \* MagqlExtension.decorators
    get_context,     \* MagqlExtension._get_context
    app_extensions,  \* the names in app.extensions besides "magql"
    registered,      \* init_app has registered the blueprint on the app
    view_funcs,      \* the view function the blueprint holds for each route
    pc,              \* per request: "idle", "loop" (inside graphql), "done"
    request,         \* per request: what the client sent
    operations,      \* per request: the local `operations` (a list of trees)
    is_single,       \* per request: the local `is_single`
    idx,             \* per request: operations the for loop has consumed
    status,          \* per request: the local `status`
    results,         \* per request: the local `results`
    response,        \* per request: the response handed to the client
    entered,         \* per request: the decorators entered, outermost first
    log,             \* current_app.logger.error records
    executions,      \* the calls of schema.execute
    provider_calls   \* how many times self._get_context() was called

ext_vars == <<impl, debug, decorators, get_context, app_extensions, registered,
              view_funcs>>
req_vars == <<pc, request, operations, is_single, idx, status, results,
              response, entered>>
side_vars == <<log, executions, provider_calls>>
vars == <<ext_vars, req_vars, side_vars>>

Routes == {"/graphql", "/schema.graphql", "/graphiql"}
Decorators == {"auth_required", "cors"}
\* Longest decorator list given to the extension.
MaxDecorators == 2

(***************************************************************************)
(* _views.py / extension.py: _handle_errors.                               *)
(***************************************************************************)
\* Mutant: the isinstance test is dropped, every original fault is unexpected.
IsUnexpected_any_fault(error) == ~IsNone(error.original_error)

\* `oe is not None and not isinstance(oe, GraphQLError)`
IsUnexpected(error) ==
    /\ ~IsNone(error.original_error)
    /\ ~IsGraphQLError(Get(error.original_error))

\* The key of the traceback in error.extensions.
traceback_key == IF impl = "_views" THEN "traceback" ELSE "exception"

\* Mutant: the traceback is attached whatever current_app.debug says.
redact_with_traceback(error) ==
    [error EXCEPT
        !.message = "Internal Server Error",
        !.extensions =
            traceback_key :> format_exception(Get(error.original_error))]

\* The error after the in-place writes of the `if` branch.
redact(error) ==
    [error EXCEPT
        !.message = "Internal Server Error",
        !.extensions =
            IF debug
            THEN traceback_key :> format_exception(Get(error.original_error))
            ELSE @]

\* The message given to current_app.logger.error; the second element is the
\* value interpolated for {error.path} (None prints as "None").
log_message(error) ==
    IF impl = "_views" THEN <<"Exception on GraphQL field ", error.path>>
    ELSE IF ~IsNone(error.path)
         THEN <<"Exception on GraphQL field ", error.path>>
         ELSE <<"Exception on GraphQL operation">>

\* Mutant: the loop stops after the first error of the list.
handle_error_first_only(error, position) ==
    IF IsUnexpected(error) /\ position = 1
    THEN [error |-> redact(error),
          log |-> <<[error |-> position,
                     message |-> log_message(error),
                     exc_info |-> Get(error.original_error)]>>]
    ELSE [error |-> error, log |-> <<>>]

\* What the loop body does to one error: the error afterwards and the log
\* records emitted (position is the error's place in the list).
handle_error(error, position) ==
    IF IsUnexpected(error)
    THEN [error |-> redact(error),
          log |-> <<[error |-> position,
                     message |-> log_message(error),
                     exc_info |-> Get(error.original_error)]>>]
    ELSE [error |-> error, log |-> <<>>]

RECURSIVE handle_log(_, _)
\* The log records of `for error in errors`, from position on, in order.
handle_log(errors, position) ==
    IF position > Len(errors) THEN <<>>
    ELSE handle_error(errors[position], position).log
         \o handle_log(errors, position + 1)

\* current_status after the loop.
current_status(errors) ==
    IF \E i \in 1..Len(errors) : IsUnexpected(errors[i]) THEN 500 ELSE 400

\* _handle_errors(errors, status): the returned status, the error list after
\* the in-place redactions, and the log records.
handle_errors(errors, st) ==
    [status |-> IF current_status(errors) > st THEN current_status(errors)
                ELSE st,
     errors |-> [i \in 1..Len(errors) |-> handle_error(errors[i], i).error],
     log |-> handle_log(errors, 1)]

(***************************************************************************)
(* MagqlExtension.execute and the context provider.                        *)
(***************************************************************************)
SessionContext == "sa_session" :> "db.session"

\* Mutant: the context of the first call is kept and reused.
call_get_context_cached ==
    IF provider_calls > 0
    THEN [called |-> FALSE,
          context |-> IF get_context = "provider" THEN Some("resource" :> 1)
                      ELSE Some(SessionContext)]
    ELSE [called |-> get_context # "None",
          context |-> IF get_context = "provider" THEN Some("resource" :> 1)
                      ELSE None]

\* self._get_context(): whether a provider was called, and the context.
\*   "None"                 extension.py before any provider is set
\*   "lambda: context"      extension.py, init_app bound the session dict
\*   "_default_fsa_context" _extension.py default
\*   "provider"             a function registered with context_provider; it
\*                          opens a fresh resource on every call
call_get_context ==
    CASE get_context = "None" -> [called |-> FALSE, context |-> None]
      [] get_context = "lambda: context" ->
           [called |-> TRUE, context |-> Some(SessionContext)]
      [] get_context = "_default_fsa_context" ->
           [called |-> TRUE,
            context |-> IF "sqlalchemy" \in app_extensions
                        THEN Some(SessionContext) ELSE None]
      [] OTHER ->
           [called |-> TRUE,
            context |-> Some("resource" :> provider_calls + 1)]

\* execute(source, variables, operation)
execute(source, variables, operation) ==
    LET c == call_get_context IN
    [called |-> c.called,
     call |-> [source |-> source, variables |-> variables,
               operation |-> operation, context |-> c.context],
     result |-> schema_execute(source)]

\* dict.get(key): None when the key is absent.
dict_get(d, key) == IF key \in DOMAIN d THEN Some(d[key]) ELSE None

(***************************************************************************)
(* View decorators.  A view function is the sequence of its layers, the    *)
(* undecorated view first; d(f) adds d as the outermost layer.             *)
(***************************************************************************)
RECURSIVE decorate_reversed(_, _)
\* Mutant: the list is applied back to front, the first decorator outermost.
decorate_reversed(f, ds) ==
    IF ds = <<>> THEN f
    ELSE decorate_reversed(Append(f, ds[Len(ds)]), SubSeq(ds, 1, Len(ds) - 1))

RECURSIVE decorate(_, _)
\* `for d in decorators: f = d(f)`
decorate(f, ds) ==
    IF ds = <<>> THEN f ELSE decorate(Append(f, Head(ds)), Tail(ds))

RECURSIVE call_view(_, _)
\* Calling a decorated view: auth_required raises Unauthorized when the
\* request carries no authorization, cors calls through.
call_view(view, authorized) ==
    IF Len(view) = 1 THEN [entered |-> <<>>, reached |-> TRUE, exc |-> None]
    ELSE LET d == view[Len(view)] IN
         IF d = "auth_required" /\ ~authorized
         THEN [entered |-> <<d>>, reached |-> FALSE,
               exc |-> Some("Unauthorized")]
         ELSE LET inner == call_view(SubSeq(view, 1, Len(view) - 1),
                                     authorized) IN
              [inner EXCEPT !.entered = <<d>> \o @]

\* The view function Flask calls for a route.
route_view(rt) ==
    IF impl = "_views" THEN decorate(view_funcs[rt], decorators)
    ELSE view_funcs[rt]

\* Flask's translation of an exception that leaves a view: an HTTPException
\* gives its own code, anything else is a 500.
host_status(exc) ==
    CASE exc = "BadRequestKeyError" -> 400
      [] exc = "Unauthorized" -> 401
      [] OTHER -> 500

error_response(exc) ==
    Some([status |-> host_status(exc), kind |-> "error", body |-> exc])

(***************************************************************************)
(* Setting the extension up.                                               *)
(***************************************************************************)
Serving == \E r \in Requests : pc[r] # "idle"

\* ext.decorators.append(d)
append_decorator(d) ==
    /\ ~registered
    /\ Len(decorators) < MaxDecorators
    /\ decorators' = Append(decorators, d)
    /\ UNCHANGED <<impl, debug, get_context, app_extensions, registered,
                   view_funcs, req_vars, side_vars>>

\* @ext.context_provider
context_provider ==
    /\ ~Serving
    /\ get_context # "provider"
    /\ get_context' = "provider"
    /\ UNCHANGED <<impl, debug, decorators, app_extensions, registered,
                   view_funcs, req_vars, side_vars>>

\* db.init_app(app) of the SQLAlchemy extension
sqlalchemy_init_app ==
    /\ ~Serving
    /\ "sqlalchemy" \notin app_extensions
    /\ app_extensions' = app_extensions \cup {"sqlalchemy"}
    /\ UNCHANGED <<impl, debug, decorators, get_context, registered,
                   view_funcs, req_vars, side_vars>>

\* ext.init_app(app)
init_app ==
    /\ ~registered
    /\ registered' = TRUE
    /\ IF impl = "_views"
       THEN UNCHANGED <<get_context, view_funcs>>
       ELSE /\ get_context' =
                   IF get_context = "None" /\ "sqlalchemy" \in app_extensions
                   THEN "lambda: context" ELSE get_context
            /\ view_funcs' = [rt \in Routes |-> decorate(<<rt>>, decorators)]
    /\ UNCHANGED <<impl, debug, decorators, app_extensions, req_vars,
                   side_vars>>

(***************************************************************************)
(* Serving a request.                                                      *)
(***************************************************************************)
\* Mutant: an exception of the mapping is swallowed and the loop is entered.
parse_operations_swallow(body) ==
    IF body.mimetype = "multipart/form-data"
    THEN NoExc(map_files_to_operations(body.operations, body.map,
                                       body.files).v)
    ELSE NoExc(body.operations)

\* The body of graphql() up to the for loop: the parsed operations, or the
\* exception that map_files_to_operations raised.
parse_operations(body) ==
    IF body.mimetype = "multipart/form-data"
    THEN map_files_to_operations(body.operations, body.map, body.files)
    ELSE NoExc(body.operations)

\* Flask routes request r to a view: the decorators run, then the view up to
\* its first loop iteration.
Dispatch(r, rt, authorized, body) ==
    /\ registered
    /\ pc[r] = "idle"
    /\ request' = [request EXCEPT ![r] =
           Some([route |-> rt, authorized |-> authorized, body |-> body])]
    /\ LET c == call_view(route_view(rt), authorized)
           parsed == parse_operations(body)
       IN
       /\ entered' = [entered EXCEPT ![r] = c.entered]
       /\ IF ~c.reached THEN
              /\ response' = [response EXCEPT ![r] = error_response(Get(c.exc))]
              /\ pc' = [pc EXCEPT ![r] = "done"]
              /\ UNCHANGED <<operations, is_single, idx, status, results>>
          ELSE IF rt = "/schema.graphql" THEN
              /\ response' = [response EXCEPT ![r] =
                     Some([status |-> 200, kind |-> "text",
                           body |-> "schema.to_document()"])]
              /\ pc' = [pc EXCEPT ![r] = "done"]
              /\ UNCHANGED <<operations, is_single, idx, status, results>>
          ELSE IF rt = "/graphiql" THEN
              /\ response' = [response EXCEPT ![r] =
                     Some([status |-> 200, kind |-> "html",
                           body |-> "magql/graphiql.html"])]
              /\ pc' = [pc EXCEPT ![r] = "done"]
              /\ UNCHANGED <<operations, is_single, idx, status, results>>
          ELSE IF ~IsNone(parsed.exc) THEN
              /\ response' = [response EXCEPT ![r] =
                     error_response(Get(parsed.exc))]
              /\ pc' = [pc EXCEPT ![r] = "done"]
              \* the tree as the failed mapping left it
              /\ operations' = [operations EXCEPT ![r] = <<parsed.v>>]
              /\ UNCHANGED <<is_single, idx, status, results>>
          ELSE
              /\ is_single' = [is_single EXCEPT ![r] = ~IsList(parsed.v)]
              /\ operations' = [operations EXCEPT ![r] =
                     IF IsList(parsed.v) THEN parsed.v.l ELSE <<parsed.v>>]
              /\ results' = [results EXCEPT ![r] = <<>>]
              /\ status' = [status EXCEPT ![r] = 200]
              /\ idx' = [idx EXCEPT ![r] = 0]
              /\ pc' = [pc EXCEPT ![r] = "loop"]
              /\ UNCHANGED response
    /\ UNCHANGED <<ext_vars, side_vars>>

\* The exception `operation["query"]` raises, if any.
query_exception(operation) ==
    IF ~IsMap(operation) THEN Some("TypeError")
    ELSE IF "query" \notin DOMAIN operation.m THEN Some("KeyError")
    ELSE None

\* _handle_errors applied when `result.errors is not None`.
classify(errors, st) ==
    IF IsNone(errors) THEN [status |-> st, errors |-> None, log |-> <<>>]
    ELSE LET h == handle_errors(Get(errors), st) IN
         [status |-> h.status, errors |-> Some(h.errors), log |-> h.log]

\* Mutant: the loop is left at the first operation whose result has errors.
ExecOp_break_on_error(r) ==
    /\ pc[r] = "loop"
    /\ idx[r] < Len(operations[r])
    /\ LET operation == operations[r][idx[r] + 1]
           qe == query_exception(operation)
       IN
       IF ~IsNone(qe) THEN
           /\ response' = [response EXCEPT ![r] = error_response(Get(qe))]
           /\ pc' = [pc EXCEPT ![r] = "done"]
           /\ UNCHANGED <<idx, status, results, side_vars>>
       ELSE
           LET e == execute(operation.m["query"].s,
                            dict_get(operation.m, "variables"),
                            dict_get(operation.m, "operationName"))
               h == classify(e.result.errors, status[r])
           IN
           /\ status' = [status EXCEPT ![r] = h.status]
           /\ results' = [results EXCEPT ![r] =
                  Append(@, result_formatted([e.result EXCEPT
                                                 !.errors = h.errors]))]
           /\ log' = log \o [i \in 1..Len(h.log) |->
                  [request |-> r, operation |-> idx[r] + 1,
                   error |-> h.log[i].error, message |-> h.log[i].message,
                   exc_info |-> h.log[i].exc_info]]
           /\ executions' = Append(executions,
                  [request |-> r, operation |-> idx[r] + 1, call |-> e.call,
                   provider_call |-> IF e.called THEN provider_calls + 1
                                     ELSE 0])
           /\ provider_calls' = provider_calls + (IF e.called THEN 1 ELSE 0)
           /\ idx' = [idx EXCEPT ![r] = IF h.status >= 400
                                      THEN Len(operations[r]) ELSE @ + 1]
           /\ UNCHANGED <<pc, response>>
    /\ UNCHANGED <<ext_vars, request, operations, is_single, entered>>

\* Mutant: the status accumulator is one process-wide variable.
ExecOp_shared_status(r) ==
    /\ pc[r] = "loop"
    /\ idx[r] < Len(operations[r])
    /\ LET operation == operations[r][idx[r] + 1]
           qe == query_exception(operation)
       IN
       IF ~IsNone(qe) THEN
           /\ response' = [response EXCEPT ![r] = error_response(Get(qe))]
           /\ pc' = [pc EXCEPT ![r] = "done"]
           /\ UNCHANGED <<idx, status, results, side_vars>>
       ELSE
           LET e == execute(operation.m["query"].s,
                            dict_get(operation.m, "variables"),
                            dict_get(operation.m, "operationName"))
               h == classify(e.result.errors, status[r])
           IN
           /\ status' = [q \in Requests |-> h.status]
           /\ results' = [results EXCEPT ![r] =
                  Append(@, result_formatted([e.result EXCEPT
                                                 !.errors = h.errors]))]
           /\ log' = log \o [i \in 1..Len(h.log) |->
                  [request |-> r, operation |-> idx[r] + 1,
                   error |-> h.log[i].error, message |-> h.log[i].message,
                   exc_info |-> h.log[i].exc_info]]
           /\ executions' = Append(executions,
                  [request |-> r, operation |-> idx[r] + 1, call |-> e.call,
                   provider_call |-> IF e.called THEN provider_calls + 1
                                     ELSE 0])
           /\ provider_calls' = provider_calls + (IF e.called THEN 1 ELSE 0)
           /\ idx' = [idx EXCEPT ![r] = @ + 1]
           /\ UNCHANGED <<pc, response>>
    /\ UNCHANGED <<ext_vars, request, operations, is_single, entered>>

\* Mutant: a malformed operation ends the loop and the results collected so
\* far are returned.
ExecOp_return_partial(r) ==
    /\ pc[r] = "loop"
    /\ idx[r] < Len(operations[r])
    /\ LET operation == operations[r][idx[r] + 1]
           qe == query_exception(operation)
       IN
       IF ~IsNone(qe) THEN
           /\ response' = [response EXCEPT ![r] =
                  Some([status |-> status[r], kind |-> "array",
                        body |-> results[r]])]
           /\ pc' = [pc EXCEPT ![r] = "done"]
           /\ UNCHANGED <<idx, status, results, side_vars>>
       ELSE
           LET e == execute(operation.m["query"].s,
                            dict_get(operation.m, "variables"),
                            dict_get(operation.m, "operationName"))
               h == classify(e.result.errors, status[r])
           IN
           /\ status' = [status EXCEPT ![r] = h.status]
           /\ results' = [results EXCEPT ![r] =
                  Append(@, result_formatted([e.result EXCEPT
                                                 !.errors = h.errors]))]
           /\ log' = log \o [i \in 1..Len(h.log) |->
                  [request |-> r, operation |-> idx[r] + 1,
                   error |-> h.log[i].error, message |-> h.log[i].message,
                   exc_info |-> h.log[i].exc_info]]
           /\ executions' = Append(executions,
                  [request |-> r, operation |-> idx[r] + 1, call |-> e.call,
                   provider_call |-> IF e.called THEN provider_calls + 1
                                     ELSE 0])
           /\ provider_calls' = provider_calls + (IF e.called THEN 1 ELSE 0)
           /\ idx' = [idx EXCEPT ![r] = @ + 1]
           /\ UNCHANGED <<pc, response>>
    /\ UNCHANGED <<ext_vars, request, operations, is_single, entered>>

\* One iteration of `for operation in operations`.
ExecOp(r) ==
    /\ pc[r] = "loop"
    /\ idx[r] < Len(operations[r])
    /\ LET operation == operations[r][idx[r] + 1]
           qe == query_exception(operation)
       IN
       IF ~IsNone(qe) THEN
           /\ response' = [response EXCEPT ![r] = error_response(Get(qe))]
           /\ pc' = [pc EXCEPT ![r] = "done"]
           /\ UNCHANGED <<idx, status, results, side_vars>>
       ELSE
           LET e == execute(operation.m["query"].s,
                            dict_get(operation.m, "variables"),
                            dict_get(operation.m, "operationName"))
               h == classify(e.result.errors, status[r])
           IN
           /\ status' = [status EXCEPT ![r] = h.status]
           /\ results' = [results EXCEPT ![r] =
                  Append(@, result_formatted([e.result EXCEPT
                                                 !.errors = h.errors]))]
           /\ log' = log \o [i \in 1..Len(h.log) |->
                  [request |-> r, operation |-> idx[r] + 1,
                   error |-> h.log[i].error, message |-> h.log[i].message,
                   exc_info |-> h.log[i].exc_info]]
           /\ executions' = Append(executions,
                  [request |-> r, operation |-> idx[r] + 1, call |-> e.call,
                   provider_call |-> IF e.called THEN provider_calls + 1
                                     ELSE 0])
           /\ provider_calls' = provider_calls + (IF e.called THEN 1 ELSE 0)
           /\ idx' = [idx EXCEPT ![r] = @ + 1]
           /\ UNCHANGED <<pc, response>>
    /\ UNCHANGED <<ext_vars, request, operations, is_single, entered>>

\* Mutant: the response is the list of results whatever the request's shape.
Respond_always_list(r) ==
    /\ pc[r] = "loop"
    /\ idx[r] = Len(operations[r])
    /\ response' = [response EXCEPT ![r] =
           Some([status |-> status[r], kind |-> "array",
                 body |-> results[r]])]
    /\ pc' = [pc EXCEPT ![r] = "done"]
    /\ UNCHANGED <<ext_vars, request, operations, is_single, idx, status,
                   results, entered, side_vars>>

\* The return statements of graphql().
Respond(r) ==
    /\ pc[r] = "loop"
    /\ idx[r] = Len(operations[r])
    /\ response' = [response EXCEPT ![r] =
           IF is_single[r]
           THEN Some([status |-> status[r], kind |-> "object",
                      body |-> results[r][1]])
           ELSE Some([status |-> status[r], kind |-> "array",
                      body |-> results[r]])]
    /\ pc' = [pc EXCEPT ![r] = "done"]
    /\ UNCHANGED <<ext_vars, request, operations, is_single, idx, status,
                   results, entered, side_vars>>

(***************************************************************************)
(* Request bodies.                                                         *)
(***************************************************************************)
Seqs(S, n) == UNION {[1..k -> S] : k \in 0..n}

Op(q) == JMap("query" :> JStr(q))
\* An operation without `query`, and an operation that is not a mapping.
MalformedOps == {JMap("operationName" :> JStr("Q")), JStr("{ greet }")}
JsonOps == {Op(q) : q \in Queries} \cup MalformedOps

JsonBody(v) ==
    [mimetype |-> "application/json", operations |-> v, map |-> <<>>,
     files |-> {}]
MultipartBody(v, file_map, files) ==
    [mimetype |-> "multipart/form-data", operations |-> v, map |-> file_map,
     files |-> files]

JsonBodies ==
    {JsonBody(o) : o \in JsonOps}
    \cup {JsonBody(JList(b)) : b \in Seqs(JsonOps, MaxBatch)}

UploadOp(q, variables) == JMap(("query" :> JStr(q)) @@ ("variables" :> variables))
SingleUpload == UploadOp("{ greet }", JMap("data" :> JNull))
MultiUpload == UploadOp("{ error }", JMap("data" :> JList(<<JNull, JNull>>)))

\* The uploads of tests/test_multipart.py, and three malformed ones.
MultipartBodies ==
    {MultipartBody(SingleUpload,
                   << <<"0", << <<"variables", ".", "data">> >> >> >>, {"0"}),
     MultipartBody(MultiUpload,
                   << <<"0", << <<"variables", ".", "data", ".", "0">> >> >>,
                      <<"1", << <<"variables", ".", "data", ".", "1">> >> >> >>,
                   {"0", "1"}),
     MultipartBody(JList(<<SingleUpload, MultiUpload>>),
                   << <<"0", << <<"0", ".", "variables", ".", "data">> >> >>,
                      <<"1", << <<"1", ".", "variables", ".", "data", ".",
                                  "0">> >> >> >>,
                   {"0", "1"}),
     MultipartBody(SingleUpload,
                   << <<"0", << <<"variables", ".", "data">> >> >> >>, {}),
     MultipartBody(SingleUpload,
                   << <<"0", << <<"variables", ".", "file", ".", "x">> >> >> >>,
                   {"0"}),
     MultipartBody(MultiUpload,
                   << <<"0", << <<"variables", ".", "data", ".", "0">> >> >>,
                      <<"1", << <<"variables", ".", "data", ".", "2">> >> >> >>,
                   {"0", "1"})}

Bodies == JsonBodies \cup MultipartBodies

(***************************************************************************)
(* Specifications.                                                         *)
(***************************************************************************)
InitRequests ==
    /\ pc = [r \in Requests |-> "idle"]
    /\ request = [r \in Requests |-> None]
    /\ operations = [r \in Requests |-> <<>>]
    /\ is_single = [r \in Requests |-> FALSE]
    /\ idx = [r \in Requests |-> 0]
    /\ status = [r \in Requests |-> 0]
    /\ results = [r \in Requests |-> <<>>]
    /\ response = [r \in Requests |-> None]
    /\ entered = [r \in Requests |-> <<>>]
    /\ log = <<>>
    /\ executions = <<>>
    /\ provider_calls = 0

\* MagqlExtension(schema, decorators=ds)
Construct(ds) ==
    /\ decorators = ds
    /\ get_context = IF impl = "_views" THEN "_default_fsa_context" ELSE "None"
    /\ registered = FALSE
    /\ view_funcs = [rt \in Routes |-> IF impl = "_views" THEN <<rt>> ELSE <<>>]

\* An application served with the extension's defaults:
\* MagqlExtension(schema).init_app(app).
Init ==
    /\ impl \in Impls
    /\ debug \in BOOLEAN
    /\ app_extensions = {}
    /\ decorators = <<>>
    /\ get_context = IF impl = "_views" THEN "_default_fsa_context" ELSE "None"
    /\ registered = TRUE
    /\ view_funcs = [rt \in Routes |-> <<rt>>]
    /\ InitRequests

Next ==
    \/ /\ pc[1] = "idle"
       /\ \E body \in Bodies : Dispatch(1, "/graphql", TRUE, body)
    \/ ExecOp(1)
    \/ Respond(1)

Spec == Init /\ [][Next]_vars

\* The extension from its construction on.
InitLifecycle ==
    /\ impl \in Impls
    /\ debug = FALSE
    /\ app_extensions = {}
    /\ \E ds \in Seqs(Decorators, 1) : Construct(ds)
    /\ InitRequests

LifecycleBodies ==
    {JsonBody(Op("{ greet }")), JsonBody(Op("{ error }"))}
    \cup {JsonBody(JList(b)) :
            b \in Seqs({Op("{ greet }"), Op("{ error }")}, MaxBatch)}

NextLifecycle ==
    \/ \E d \in Decorators : append_decorator(d)
    \/ context_provider
    \/ sqlalchemy_init_app
    \/ init_app
    \/ /\ pc[1] = "idle"
       /\ \E rt \in Routes, authorized \in BOOLEAN, body \in LifecycleBodies :
             Dispatch(1, rt, authorized, body)
    \/ ExecOp(1)
    \/ Respond(1)

SpecLifecycle == InitLifecycle /\ [][NextLifecycle]_vars

(***************************************************************************)
(* What the claims speak about, read off the request and the engine.       *)
(***************************************************************************)
\* An error whose original fault is present and is not a GraphQL error.
InternalFault(error) ==
    /\ error.original_error # None
    /\ Get(error.original_error) \notin GraphQLErrorClasses

Sent(r) == ~IsNone(request[r])

\* The operations of request r as the client sent them, as a list.
RequestOps(r) ==
    LET v == Get(request[r]).body.operations IN
    IF IsList(v) THEN v.l ELSE <<v>>

\* The engine's error list for operation i of request r (<<>> when absent).
RawErrors(r, i) ==
    LET e == schema_execute(RequestOps(r)[i].m["query"].s).errors IN
    IF IsNone(e) THEN <<>> ELSE Get(e)

\* The operations of request r the loop has gone through.
Processed(r) == 1..idx[r]

\* The error as the client sees it: error j of result i of request r.
SeenError(r, i, j) == Get(results[r][i].errors)[j]

\* The extensions of a formatted error ({} when the key is absent).
SeenExtensions(fe) ==
    IF "extensions" \in DOMAIN fe THEN Get(fe["extensions"]) ELSE EmptyDict

LogOf(r, i, j) ==
    {k \in 1..Len(log) :
        log[k].request = r /\ log[k].operation = i /\ log[k].error = j}

Returned(r) ==
    /\ ~IsNone(response[r])
    /\ Get(response[r]).kind \in {"object", "array"}

(***************************************************************************)
(* C1: the status of the response is the maximum of 200 and the            *)
(* contributions of the operations: 500 if some error of some operation    *)
(* carries a fault that is not a GraphQL error, else 400 if some operation *)
(* has a non-empty error list, else 200; an absent or empty error list     *)
(* contributes nothing.                                                    *)
(***************************************************************************)
ClaimedStatus(r) ==
    IF \E i \in 1..Len(RequestOps(r)) : \E j \in 1..Len(RawErrors(r, i)) :
           InternalFault(RawErrors(r, i)[j])
    THEN 500
    ELSE IF \E i \in 1..Len(RequestOps(r)) : Len(RawErrors(r, i)) > 0
         THEN 400
         ELSE 200

C1_StatusIsMaximum ==
    \A r \in Requests :
        Returned(r) => Get(response[r]).status = ClaimedStatus(r)

(***************************************************************************)
(* C2: the response has the shape of the request: a single operation gives *)
(* the bare formatted result, a sequence of n operations gives an array of *)
(* n formatted results, entry i being the result of operation i, with or   *)
(* without errors; a request of well-formed operations is answered so.     *)
(***************************************************************************)
\* The formatted result the client is to see for a well-formed operation.
ExpectedResult(operation) ==
    LET raw == schema_execute(operation.m["query"].s) IN
    result_formatted([raw EXCEPT !.errors = classify(raw.errors, 200).errors])

WellFormedOps(r) ==
    \A i \in 1..Len(RequestOps(r)) : IsNone(query_exception(RequestOps(r)[i]))

C2_ShapeMirrorsRequest ==
    \A r \in Requests :
        (pc[r] = "done" /\ Get(request[r]).route = "/graphql"
            /\ IsNone(parse_operations(Get(request[r]).body).exc)
            /\ WellFormedOps(r))
        => LET sent == Get(request[r]).body.operations
               resp == Get(response[r])
           IN IF IsList(sent)
              THEN /\ resp.kind = "array"
                   /\ Len(resp.body) = Len(sent.l)
                   /\ \A i \in 1..Len(sent.l) :
                          resp.body[i] = ExpectedResult(sent.l[i])
              ELSE /\ resp.kind = "object"
                   /\ resp.body = ExpectedResult(sent)

C2_Witness ==
    /\ pc[1] = "done"
    /\ Returned(1)
    /\ Get(response[1]).kind = "array"
    /\ Len(Get(response[1]).body) = 2
    /\ RequestOps(1)[1] = Op("{ error }")
    /\ RequestOps(1)[2] = Op("{ greet }")

(***************************************************************************)
(* C3: every error whose original fault is present and is not a GraphQL    *)
(* error reaches the client with the message "Internal Server Error",      *)
(* makes the status 500, and is logged exactly once, with the failing      *)
(* field path and the fault; this for every such error of the list.        *)
(***************************************************************************)
C3_UnexpectedRedactedAndLogged ==
    \A r \in Requests : Sent(r) =>
      \A i \in Processed(r) : \A j \in 1..Len(RawErrors(r, i)) :
        LET raw == RawErrors(r, i)[j] IN
        InternalFault(raw) =>
            /\ SeenError(r, i, j)["message"] = Some("Internal Server Error")
            /\ SeenError(r, i, j)["message"] # Some(raw.message)
            /\ status[r] = 500
            /\ Cardinality(LogOf(r, i, j)) = 1
            /\ \A k \in LogOf(r, i, j) :
                  /\ log[k].exc_info = Get(raw.original_error)
                  /\ ~IsNone(raw.path) =>
                        log[k].message = <<"Exception on GraphQL field ",
                                           raw.path>>

\* The third error of an operation is an unexpected one, after an expected
\* and an unexpected one.
C3_Witness ==
    /\ Sent(1)
    /\ idx[1] = 2
    /\ Len(RawErrors(1, 2)) = 3
    /\ InternalFault(RawErrors(1, 2)[3])
    /\ InternalFault(RawErrors(1, 2)[2])
    /\ ~InternalFault(RawErrors(1, 2)[1])

(***************************************************************************)
(* C4: the formatted fault trace is in an error's extensions, under the    *)
(* fixed key, exactly when the application is in debug mode and the error  *)
(* is unexpected; otherwise the extensions are the engine's.               *)
(***************************************************************************)
C4_TracebackOnlyInDebug ==
    \A r \in Requests : Sent(r) =>
      \A i \in Processed(r) : \A j \in 1..Len(RawErrors(r, i)) :
        LET raw == RawErrors(r, i)[j]
            ext == SeenExtensions(SeenError(r, i, j))
        IN
        /\ traceback_key \in DOMAIN ext <=> (debug /\ InternalFault(raw))
        /\ (debug /\ InternalFault(raw)) =>
              ext[traceback_key] = format_exception(Get(raw.original_error))
        /\ ~(debug /\ InternalFault(raw)) => ext = raw.extensions

C4_Witness ==
    /\ Sent(1)
    /\ debug
    /\ idx[1] = 1
    /\ Len(RawErrors(1, 1)) = 3
    /\ "code" \in DOMAIN RawErrors(1, 1)[3].extensions
    /\ traceback_key \in DOMAIN SeenExtensions(SeenError(1, 1, 3))
    /\ traceback_key \notin DOMAIN SeenExtensions(SeenError(1, 1, 1))

(***************************************************************************)
(* C5: an error without an original fault, or whose fault is a GraphQL     *)
(* error, keeps the engine's message and extensions and is not logged,     *)
(* also next to redacted errors; operations with only such errors make the *)
(* status 400.                                                             *)
(***************************************************************************)
C5_ExpectedPassedThrough ==
    \A r \in Requests : Sent(r) =>
      /\ \A i \in Processed(r) : \A j \in 1..Len(RawErrors(r, i)) :
            LET raw == RawErrors(r, i)[j] IN
            ~InternalFault(raw) =>
                /\ SeenError(r, i, j)["message"] = Some(raw.message)
                /\ SeenExtensions(SeenError(r, i, j)) = raw.extensions
                /\ LogOf(r, i, j) = {}
      /\ ( /\ \E i \in Processed(r) : Len(RawErrors(r, i)) > 0
           /\ \A i \in Processed(r) : \A j \in 1..Len(RawErrors(r, i)) :
                 ~InternalFault(RawErrors(r, i)[j]) )
         => status[r] = 400

\* An expected error with a GraphQL fault between redacted errors, and an
\* operation with only a syntax error.
C5_Witness ==
    /\ Sent(1)
    /\ idx[1] = 2
    /\ RawErrors(1, 1) = <<ValidationErr, FieldFault, OperationFault>>
    /\ RawErrors(1, 2) = <<SyntaxErr>>
    /\ Len(log) = 2

(***************************************************************************)
(* C7: every malformed request (an operation without `query`, a path       *)
(* segment that is no index where a sequence is met, an index out of       *)
(* range, a missing field name, a file-map key without an uploaded file)   *)
(* is answered with a 4xx status, never with a 500.                        *)
(***************************************************************************)
C7_MalformedIs4xx ==
    \A r \in Requests :
        (~IsNone(response[r]) /\ Get(response[r]).kind = "error")
        => (Get(response[r]).status >= 400 /\ Get(response[r]).status < 500)

(***************************************************************************)
(* Multipart requests: every file map of at most one entry per key over a  *)
(* pool of paths, applied to the three operation shapes of the tests.      *)
(***************************************************************************)
\* Longest list of paths under one key of the file map.
MaxPaths == 1

FileKeys == {"0", "1"}

PathPool ==
    {<<"variables", ".", "data">>,
     <<"variables", ".", "data", ".", "0">>,
     <<"variables", ".", "data", ".", "1">>,
     <<"0", ".", "variables", ".", "data">>,
     <<"1", ".", "variables", ".", "data", ".", "0">>,
     <<"variables", ".", "data", ".", "-1">>,
     <<"variables", ".", "data", ".", "2">>,
     <<"variables", ".", "file">>,
     <<"variables", ".", "file", ".", "x">>}

FileMapEntries == {<<k, ps>> : k \in FileKeys, ps \in Seqs(PathPool, MaxPaths)}

\* A JSON object has each key once.
FileMaps ==
    {m \in Seqs(FileMapEntries, Cardinality(FileKeys)) :
        \A i, j \in 1..Len(m) : i # j => m[i][1] # m[j][1]}

UploadTrees == {SingleUpload, MultiUpload, JList(<<SingleUpload, MultiUpload>>)}

FileBodies ==
    {MultipartBody(tree, m, files) :
        tree \in UploadTrees, m \in FileMaps, files \in {{"0", "1"}, {"0"}}}

InitFiles ==
    /\ impl \in Impls
    /\ debug = FALSE
    /\ app_extensions = {}
    /\ decorators = <<>>
    /\ get_context = IF impl = "_views" THEN "_default_fsa_context" ELSE "None"
    /\ registered = TRUE
    /\ view_funcs = [rt \in Routes |-> <<rt>>]
    /\ InitRequests

NextFiles ==
    \/ /\ pc[1] = "idle"
       /\ \E body \in FileBodies : Dispatch(1, "/graphql", TRUE, body)
    \/ ExecOp(1)
    \/ Respond(1)

SpecFiles == InitFiles /\ [][NextFiles]_vars

\* The indices a path may use: non-negative integers.
IndexOf == ("0" :> 0) @@ ("1" :> 1) @@ ("2" :> 2)

RECURSIVE ValueAt(_, _)
\* The value at the location a path names: a segment is an index where the
\* container is a sequence, a field name where it is a mapping.
ValueAt(tree, segments) ==
    IF segments = <<>> THEN Some(tree)
    ELSE IF IsList(tree) THEN
        IF Head(segments) \in DOMAIN IndexOf
              /\ IndexOf[Head(segments)] < Len(tree.l)
        THEN ValueAt(tree.l[IndexOf[Head(segments)] + 1], Tail(segments))
        ELSE None
    ELSE IF IsMap(tree) THEN
        IF Head(segments) \in DOMAIN tree.m
        THEN ValueAt(tree.m[Head(segments)], Tail(segments))
        ELSE None
    ELSE None

\* The (key, path) pairs of a file map.
MapPairs(file_map) ==
    UNION {{<<file_map[i][1], file_map[i][2][j]>> :
               j \in 1..Len(file_map[i][2])} : i \in 1..Len(file_map)}

\* A well-formed file map: every path names a null slot of the operations,
\* no two paths name the same slot, every key has an uploaded file.
WellFormedMap(body) ==
    /\ \A kp \in MapPairs(body.map) :
          /\ kp[1] \in body.files
          /\ ValueAt(body.operations, split(kp[2])) = Some(JNull)
    /\ \A kp1, kp2 \in MapPairs(body.map) : kp1[2] = kp2[2] => kp1 = kp2
    /\ \A i \in 1..Len(body.map) : \A j1, j2 \in 1..Len(body.map[i][2]) :
          body.map[i][2][j1] = body.map[i][2][j2] => j1 = j2

\* The operations tree of request r after the mapping.
MappedTree(r) ==
    IF IsList(Get(request[r]).body.operations) THEN JList(operations[r])
    ELSE operations[r][1]

(***************************************************************************)
(* C6: with a well-formed file map, after map_files_to_operations every    *)
(* location a path names holds files[key] of the key listing the path:     *)
(* variables.<name>, variables.<name>.<i>, and <k>.variables.<name>[.<i>]  *)
(* in a batch, the leading segment being a batch index only when the root  *)
(* is a sequence.                                                          *)
(***************************************************************************)
C6_FilesAtTheirPaths ==
    /\ \A r \in Requests :
        (Sent(r) /\ Get(request[r]).body.mimetype = "multipart/form-data"
            /\ WellFormedMap(Get(request[r]).body))
        => /\ pc[r] = "loop" \/ Returned(r)
           /\ \A kp \in MapPairs(Get(request[r]).body.map) :
                  ValueAt(MappedTree(r), split(kp[2])) = Some(JFile(kp[1]))
    /\ \A r \in Requests :
        \* a leading index on a single operation is looked up as a field
        (Sent(r) /\ Get(request[r]).body.mimetype = "multipart/form-data"
            /\ ~IsList(Get(request[r]).body.operations)
            /\ Len(Get(request[r]).body.map) > 0
            /\ Len(Get(request[r]).body.map[1][2]) > 0
            /\ Head(Get(request[r]).body.map[1][2][1]) \in DOMAIN IndexOf)
        => /\ response[r] = error_response("KeyError")
           /\ operations[r] = <<Get(request[r]).body.operations>>

\* A batch with a scalar upload in operation 0 and a list element in
\* operation 1.
C6_Witness ==
    /\ pc[1] = "loop"
    /\ WellFormedMap(Get(request[1]).body)
    /\ Get(request[1]).body.map =
          << <<"1", << <<"1", ".", "variables", ".", "data", ".", "0">> >> >>,
             <<"0", << <<"0", ".", "variables", ".", "data">> >> >> >>
    /\ operations[1][1].m["variables"].m["data"] = JFile("0")
    /\ operations[1][2].m["variables"].m["data"].l = <<JFile("1"), JNull>>

(***************************************************************************)
(* C8: the context provider is called exactly once for every executed      *)
(* operation, right before it, and what it returned is not kept for later  *)
(* operations: n operations give n calls, for a registered provider and    *)
(* for the default session provider alike.                                 *)
(***************************************************************************)
C8_ProviderCalledPerOperation ==
    /\ Len(executions) = idx[1]
    /\ get_context # "None" =>
          /\ provider_calls = Len(executions)
          /\ \A k \in 1..Len(executions) :
                /\ executions[k].provider_call = k
                /\ get_context = "provider" =>
                      executions[k].call.context = Some("resource" :> k)
                /\ get_context = "lambda: context" =>
                      executions[k].call.context = Some(SessionContext)

C8_Witness ==
    /\ get_context = "provider"
    /\ Returned(1)
    /\ Len(RequestOps(1)) = 2
    /\ provider_calls = 2
    /\ executions[2].call.context = Some("resource" :> 2)

(***************************************************************************)
(* C9: the context given to the engine is the return value of the provider *)
(* registered with context_provider (before or after init_app) if there is *)
(* one; otherwise the mapping with the session under `sa_session` if the   *)
(* SQLAlchemy extension is on the application; otherwise None.             *)
(***************************************************************************)
C9_ContextChoice ==
    \A k \in 1..Len(executions) :
        executions[k].call.context =
            IF get_context = "provider"
            THEN Some("resource" :> executions[k].provider_call)
            ELSE IF "sqlalchemy" \in app_extensions
                 THEN Some("sa_session" :> "db.session")
                 ELSE None

(***************************************************************************)
(* C10: every decorator of the list, given at construction or appended     *)
(* before init_app, wraps each of the three routes, the first of the list  *)
(* innermost and the last outermost; a request a decorator rejects does    *)
(* not reach the view: nothing is executed, no context is asked for.       *)
(***************************************************************************)
RECURSIVE Reverse(_)
Reverse(q) == IF q = <<>> THEN <<>> ELSE Append(Reverse(Tail(q)), Head(q))

\* The decorators a request passes, outermost first, up to the first one
\* that rejects it.
RECURSIVE PassedUntilRejected(_, _)
PassedUntilRejected(outer_first, authorized) ==
    IF outer_first = <<>> THEN <<>>
    ELSE IF Head(outer_first) = "auth_required" /\ ~authorized
         THEN <<Head(outer_first)>>
         ELSE <<Head(outer_first)>>
              \o PassedUntilRejected(Tail(outer_first), authorized)

Rejected(r) ==
    /\ "auth_required" \in {decorators[i] : i \in 1..Len(decorators)}
    /\ ~Get(request[r]).authorized

C10_DecoratorsWrapEveryRoute ==
    \A r \in Requests : Sent(r) =>
        /\ entered[r] = PassedUntilRejected(Reverse(decorators),
                                            Get(request[r]).authorized)
        /\ Rejected(r) =>
              /\ pc[r] = "done"
              /\ Get(response[r]).status = 401
              /\ executions = <<>>
              /\ provider_calls = 0
              /\ results[r] = <<>>
        /\ ~Rejected(r) /\ pc[r] = "done" => Get(response[r]).status # 401

\* A request that cors let through and auth_required, appended first and
\* so the inner of the two, rejected.
C10_Witness ==
    /\ Sent(1)
    /\ decorators = <<"auth_required", "cors">>
    /\ entered[1] = <<"cors", "auth_required">>
    /\ Get(request[1]).route = "/schema.graphql"
    /\ Get(response[1]).status = 401


(***************************************************************************)
(* C11: in path resolution a segment met at a sequence is parsed as a      *)
(* non-negative integer index; a segment that is negative, non-numeric or  *)
(* out of range there is a resolution failure that writes nothing and      *)
(* never addresses an element of the sequence.                             *)
(***************************************************************************)
RECURSIVE BadSequenceSegment(_, _)
\* Walking the path from tree meets a sequence at a segment that is not an
\* in-range non-negative index.
BadSequenceSegment(tree, segments) ==
    IF segments = <<>> THEN FALSE
    ELSE IF IsList(tree) THEN
        IF Head(segments) \in DOMAIN IndexOf
              /\ IndexOf[Head(segments)] < Len(tree.l)
        THEN BadSequenceSegment(tree.l[IndexOf[Head(segments)] + 1],
                                Tail(segments))
        ELSE TRUE
    ELSE IF IsMap(tree) /\ Head(segments) \in DOMAIN tree.m
    THEN BadSequenceSegment(tree.m[Head(segments)], Tail(segments))
    ELSE FALSE

\* The first path of the file map of request r, when there is one.
HasFirstPath(r) ==
    /\ Sent(r)
    /\ Get(request[r]).body.mimetype = "multipart/form-data"
    /\ Len(Get(request[r]).body.map) > 0
    /\ Len(Get(request[r]).body.map[1][2]) > 0
FirstPath(r) == Get(request[r]).body.map[1][2][1]

C11_BadIndexWritesNothing ==
    \A r \in Requests :
        (HasFirstPath(r)
            /\ BadSequenceSegment(Get(request[r]).body.operations,
                                  split(FirstPath(r))))
        => /\ ~IsNone(response[r])
           /\ Get(response[r]).kind = "error"
           /\ operations[r] = <<Get(request[r]).body.operations>>


(***************************************************************************)
(* C12: the order of the writes of map_files_to_operations.                *)
(***************************************************************************)
RECURSIVE PairSeq(_)
\* The (key, path) pairs of a file map in the order they are applied.
PairSeq(file_map) ==
    IF file_map = <<>> THEN <<>>
    ELSE [j \in 1..Len(Head(file_map)[2]) |->
             <<Head(file_map)[1], Head(file_map)[2][j]>>]
         \o PairSeq(Tail(file_map))

\* The pairs of request r, and the segments of the path of pair k.
Pairs(r) == PairSeq(Get(request[r]).body.map)
Segments(r, k) == split(Pairs(r)[k][2])

\* Segments a name the location of segments b or a container above it.
Prefix(a, b) == Len(a) <= Len(b) /\ SubSeq(b, 1, Len(a)) = a
StrictPrefix(a, b) == Len(a) < Len(b) /\ Prefix(a, b)

\* Every key has an uploaded file and every path names a location of the
\* operations as they were sent.
Resolvable(r) ==
    /\ Sent(r)
    /\ Get(request[r]).body.mimetype = "multipart/form-data"
    /\ \A k \in 1..Len(Pairs(r)) :
          /\ Pairs(r)[k][1] \in Get(request[r]).body.files
          /\ ValueAt(Get(request[r]).body.operations, Segments(r, k)) # None

\* No two pairs name the same location or a location inside the other's.
Disjoint(r) ==
    \A i, j \in 1..Len(Pairs(r)) :
        i # j => ~Prefix(Segments(r, i), Segments(r, j))

\* A path is applied before a longer path it is a prefix of.
ShorterFirst(r) ==
    \E i, j \in 1..Len(Pairs(r)) :
        i < j /\ StrictPrefix(Segments(r, i), Segments(r, j))

\* The write of pair k is not followed by a write to the same location or to
\* a container above it.
LastWrite(r, k) ==
    \A j \in 1..Len(Pairs(r)) :
        j > k => ~Prefix(Segments(r, j), Segments(r, k))

Orders(n) ==
    {f \in [1..n -> 1..n] : \A i, j \in 1..n : f[i] = f[j] => i = j}

\* The file map applying the pairs in the order f.
Reordered(pairs, f) ==
    [i \in 1..Len(pairs) |-> <<pairs[f[i]][1], <<pairs[f[i]][2]>> >>]

MappingSucceeded(r) ==
    /\ pc[r] = "loop" \/ Returned(r)
    /\ ~IsNone(response[r]) => Get(response[r]).kind # "error"

\* C12, as claimed: with overlapping paths (the same location, or one path a
\* prefix of another) the mapping does not fail and the write applied last
\* wins, whatever the order of the paths.
C12_OverlapNeverFails ==
    \A r \in Requests :
        Resolvable(r)
        => /\ MappingSucceeded(r)
           /\ \A k \in 1..Len(Pairs(r)) :
                 LastWrite(r, k)
                 => ValueAt(MappedTree(r), Segments(r, k))
                       = Some(JFile(Pairs(r)[k][1]))

\* C12, amended: disjoint paths give the same operations in every order;
\* two paths naming the same location, or a longer path applied before its
\* prefix, do not fail and the last write to a location is what it holds
\* (a blind overwrite, of a file or of a list of files alike); a path
\* applied before a longer path it is a prefix of makes the longer path
\* fail to resolve, with a TypeError.
C12_LastWriteWins ==
    \A r \in Requests :
        Resolvable(r)
        => IF ShorterFirst(r)
           THEN response[r] = error_response("TypeError")
           ELSE /\ MappingSucceeded(r)
                /\ \A k \in 1..Len(Pairs(r)) :
                      LastWrite(r, k)
                      => ValueAt(MappedTree(r), Segments(r, k))
                            = Some(JFile(Pairs(r)[k][1]))
                /\ Disjoint(r)
                   => \A f \in Orders(Len(Pairs(r))) :
                         map_files_to_operations(
                             Get(request[r]).body.operations,
                             Reordered(Pairs(r), f),
                             Get(request[r]).body.files)
                         = NoExc(MappedTree(r))

\* The list of files is overwritten by a file after one of its elements was
\* written, and one location is written twice.
C12_Witness ==
    /\ Resolvable(1)
    /\ pc[1] = "loop"
    /\ Pairs(1) = << <<"0", <<"variables", ".", "data", ".", "0">> >>,
                     <<"1", <<"variables", ".", "data">> >> >>
    /\ operations[1][1].m["variables"].m["data"] = JFile("1")


(***************************************************************************)
(* C13: within one request the operations are executed one after the       *)
(* other in request order, each exactly once; operation i+1 is executed    *)
(* only when the result of operation i has been classified and collected,  *)
(* and a result with errors (400 or 500) does not stop the loop.           *)
(***************************************************************************)
\* The executions of the engine made for request r, in the order made.
ExecutionsOf(r) == SelectSeq(executions, LAMBDA e : e.request = r)

C13_SequentialOnce ==
    \A r \in Requests :
        Sent(r)
        => LET ex == ExecutionsOf(r) IN
           /\ Len(ex) = idx[r]
           /\ Len(results[r]) = idx[r]
           /\ \A k \in 1..Len(ex) :
                 /\ ex[k].operation = k
                 /\ ex[k].call.source = operations[r][k].m["query"].s
                 /\ results[r][k] = ExpectedResult(operations[r][k])
           /\ Returned(r) => Len(ex) = Len(RequestOps(r))
           /\ status[r] >= 400 /\ pc[r] = "loop" /\ idx[r] < Len(operations[r])
              => IsNone(response[r])

\* A batch whose first operation fails with 500 and whose second operation
\* was executed after it.
C13_Witness ==
    /\ Returned(1)
    /\ Len(RequestOps(1)) = 2
    /\ RequestOps(1)[1] = Op("{ error }")
    /\ Len(ExecutionsOf(1)) = 2
    /\ ExecutionsOf(1)[2].call.source = "{ greet }"
    /\ Get(response[1]).status = 500
    /\ Len(Get(response[1]).body) = 2


(***************************************************************************)
(* C14: an unexpected error without a path is classified like one with a   *)
(* path (500, message redacted, logged), and its log message is the        *)
(* operation-level phrasing; the field phrasing, with the path, is used    *)
(* only when the error has a path.                                         *)
(***************************************************************************)
C14_OperationPhrasing ==
    \A r \in Requests : Sent(r) =>
      \A i \in Processed(r) : \A j \in 1..Len(RawErrors(r, i)) :
        LET raw == RawErrors(r, i)[j] IN
        InternalFault(raw) =>
            /\ SeenError(r, i, j)["message"] = Some("Internal Server Error")
            /\ status[r] = 500
            /\ Cardinality(LogOf(r, i, j)) = 1
            /\ \A k \in LogOf(r, i, j) :
                  log[k].message =
                      IF IsNone(raw.path)
                      THEN <<"Exception on GraphQL operation">>
                      ELSE <<"Exception on GraphQL field ", raw.path>>


(***************************************************************************)
(* Two requests served concurrently: the steps of the two view calls       *)
(* (entry up to the loop, one loop iteration, the return) interleave in    *)
(* every order.                                                            *)
(***************************************************************************)
ConcQueries == {"{ greet }", "{ greet() }", "{ error }"}

ConcBodies ==
    {JsonBody(Op(q)) : q \in ConcQueries}
    \cup {JsonBody(JList(b)) : b \in Seqs({Op(q) : q \in ConcQueries}, MaxBatch)}
    \cup {MultipartBody(SingleUpload,
                        << <<"0", << <<"variables", ".", "data">> >> >> >>,
                        {"0"})}

\* An application served with the default context or a registered provider.
InitConc ==
    /\ impl \in Impls
    /\ debug = FALSE
    /\ app_extensions = {}
    /\ decorators = <<>>
    /\ get_context \in {"provider", IF impl = "_views"
                                    THEN "_default_fsa_context" ELSE "None"}
    /\ registered = TRUE
    /\ view_funcs = [rt \in Routes |-> <<rt>>]
    /\ InitRequests

NextConc ==
    \E r \in Requests :
        \/ /\ pc[r] = "idle"
           /\ \E body \in ConcBodies : Dispatch(r, "/graphql", TRUE, body)
        \/ ExecOp(r)
        \/ Respond(r)

SpecConc == InitConc /\ [][NextConc]_vars

(***************************************************************************)
(* C15: no mutable state is shared between requests: under every           *)
(* interleaving of the steps of concurrent requests, the status, the       *)
(* result list and the operations tree of a request are those the request  *)
(* has when it is processed alone, and so is its response; only the value  *)
(* the context provider returns depends on the other requests.             *)
(***************************************************************************)
\* The operations tree a request has when the views parse it alone.
AloneOps(r) ==
    LET v == parse_operations(Get(request[r]).body).v IN
    IF IsList(v) THEN v.l ELSE <<v>>

\* What operation contributes to the status when processed alone.
AloneContribution(operation) ==
    LET raw == schema_execute(operation.m["query"].s) IN
    IF IsNone(raw.errors) THEN 200
    ELSE IF \E j \in 1..Len(Get(raw.errors)) : InternalFault(Get(raw.errors)[j])
    THEN 500 ELSE 400

RECURSIVE AloneStatus(_, _)
\* The status after the first n operations, processed alone.
AloneStatus(ops, n) ==
    IF n = 0 THEN 200
    ELSE LET s == AloneStatus(ops, n - 1)
             c == AloneContribution(ops[n])
         IN IF c > s THEN c ELSE s

\* The results of the first n operations, processed alone.
AloneResults(ops, n) == [i \in 1..n |-> ExpectedResult(ops[i])]

C15_RequestsIsolated ==
    \A r \in Requests :
        Sent(r)
        => /\ operations[r] = AloneOps(r)
           /\ status[r] = AloneStatus(AloneOps(r), idx[r])
           /\ results[r] = AloneResults(AloneOps(r), idx[r])
           /\ pc[r] = "done"
              => /\ idx[r] = Len(AloneOps(r))
                 /\ Get(response[r]).status = status[r]
                 /\ Get(response[r]).body =
                       IF IsList(Get(request[r]).body.operations)
                       THEN results[r] ELSE results[r][1]

\* Request 2 entered and finished with 200 between two operations of
\* request 1, whose first operation had given 500.
C15_Witness ==
    /\ pc[1] = "done" /\ pc[2] = "done"
    /\ Get(response[1]).status = 500
    /\ Get(response[2]).status = 200
    /\ Len(executions) = 3
    /\ executions[1].request = 1
    /\ executions[2].request = 2
    /\ executions[3].request = 1
    /\ RequestOps(1)[1] = Op("{ error }")


(***************************************************************************)
(* C16: in a multipart request every entry of the file map is applied to   *)
(* the operations before the first operation is executed; when applying an *)
(* entry fails (a path that does not resolve, a key without uploaded       *)
(* file) no operation is executed and the context provider is not called,  *)
(* although the writes of the entries before the failing one are in the    *)
(* operations tree.                                                        *)
(***************************************************************************)
\* The segments of a path but the last.
Front(segments) == SubSeq(segments, 1, Len(segments) - 1)

\* Some pair of the file map of request r cannot be applied: its key has no
\* uploaded file, or the container its path ends in is not in the operations.
SomeEntryFails(r) ==
    \E k \in 1..Len(Pairs(r)) :
        \/ Pairs(r)[k][1] \notin Get(request[r]).body.files
        \/ ValueAt(Get(request[r]).body.operations, Front(Segments(r, k)))
              = None

Multipart(r) ==
    Sent(r) /\ Get(request[r]).body.mimetype = "multipart/form-data"

C16_MappingBeforeExecution ==
    \A r \in Requests :
        Multipart(r)
        => /\ SomeEntryFails(r)
              => /\ pc[r] = "done"
                 /\ Get(response[r]).kind = "error"
           /\ (~IsNone(response[r]) /\ Get(response[r]).kind = "error")
              => /\ ExecutionsOf(r) = <<>>
                 /\ provider_calls = 0
                 /\ results[r] = <<>>
           /\ ExecutionsOf(r) # <<>>
              => /\ ~SomeEntryFails(r)
                 /\ \A k \in 1..Len(Pairs(r)) :
                       (LastWrite(r, k) /\ Resolvable(r))
                       => ValueAt(MappedTree(r), Segments(r, k))
                             = Some(JFile(Pairs(r)[k][1]))
                 /\ \A i \in 1..Len(ExecutionsOf(r)) :
                       ExecutionsOf(r)[i].call.variables
                          = dict_get(operations[r][i].m, "variables")

\* The first entry was written into the list, the second entry has no
\* uploaded file: the request failed with the first file in the tree.
C16_Witness ==
    /\ Multipart(1)
    /\ Pairs(1) = << <<"0", <<"variables", ".", "data", ".", "0">> >>,
                     <<"1", <<"variables", ".", "data", ".", "1">> >> >>
    /\ Get(request[1]).body.files = {"0"}
    /\ response[1] = error_response("BadRequestKeyError")
    /\ operations[1][1].m["variables"].m["data"].l = <<JFile("0"), JNull>>
    /\ operations[1] # <<Get(request[1]).body.operations>>
    /\ executions = <<>>
    /\ provider_calls = 0


(***************************************************************************)
(* C17: a batch is not validated before its execution starts.  When        *)
(* operation k is malformed (no `query` field, or not a mapping), the      *)
(* operations before k have each been executed once, operation k and the   *)
(* ones after it are not executed, and the request ends with the uncaught  *)
(* exception of the malformed operation, none of the results computed      *)
(* being returned.                                                         *)
(***************************************************************************)
Malformed(operation) ==
    ~IsMap(operation) \/ "query" \notin DOMAIN operation.m

\* The positions of the malformed operations of request r.
MalformedAt(r) ==
    {k \in 1..Len(RequestOps(r)) : Malformed(RequestOps(r)[k])}

\* The first of them.
FirstMalformed(r) ==
    CHOOSE k \in MalformedAt(r) : \A j \in MalformedAt(r) : k <= j

C17_PartialBatch ==
    \A r \in Requests :
        (Sent(r) /\ Get(request[r]).body.mimetype = "application/json"
            /\ MalformedAt(r) # {})
        => LET k == FirstMalformed(r)
               ex == ExecutionsOf(r)
           IN
           /\ Len(ex) <= k - 1
           /\ \A i \in 1..Len(ex) :
                 /\ ex[i].operation = i
                 /\ ex[i].call.source = RequestOps(r)[i].m["query"].s
           /\ ~Returned(r)
           /\ pc[r] = "done"
              => /\ Len(ex) = k - 1
                 /\ Len(results[r]) = k - 1
                 /\ Get(response[r]).kind = "error"
                 /\ Get(response[r]).body =
                       IF IsMap(RequestOps(r)[k]) THEN "KeyError"
                       ELSE "TypeError"

\* The second operation of a batch has no `query`: the first one was
\* executed, its result is not in the response.
C17_Witness ==
    /\ Sent(1)
    /\ pc[1] = "done"
    /\ Len(RequestOps(1)) = 2
    /\ RequestOps(1)[1] = Op("{ greet }")
    /\ FirstMalformed(1) = 2
    /\ Len(ExecutionsOf(1)) = 1
    /\ Len(results[1]) = 1
    /\ Get(response[1]).kind = "error"
    /\ Get(response[1]).body = "KeyError"

====
